---- MODULE Spec2Model ----
(***************************************************************************)
(* Model of the DinnerSnap analyze endpoint (src/api/analyze.js):          *)
(* pantry clean-up (uniqLower, MAP, lev, nearestWhitelistStrict,           *)
(* cleanPantry, addPhraseCombos, stripMeatWhenSeasoning) and the request   *)
(* pipeline (handler, readJsonBody, withTimeout, runAnalyze, the two       *)
(* recipe providers and emergencyRecipe).                                  *)
(*                                                                         *)
(* JavaScript strings are TLA+ strings; characters are read with SubSeq.   *)
(***************************************************************************)
EXTENDS Integers, Sequences, FiniteSets, TLC

(* ------------------------------ bounds -------------------------------- *)
\* longest raw token list handed to the pantry functions
MaxRaw == 3

(* --------------------------- string helpers --------------------------- *)
UpperAlphabet == "ABCDEFGHIJKLMNOPQRSTUVWXYZ"
LowerAlphabet == "abcdefghijklmnopqrstuvwxyz"

\* s[i-1] of JavaScript (1-based here)
CharAt(s, i) == SubSeq(s, i, i)

\* upper-case letter |-> lower-case letter
LowerTable ==
  [c \in {CharAt(UpperAlphabet, i) : i \in 1..Len(UpperAlphabet)} |->
     CharAt(LowerAlphabet, CHOOSE i \in 1..Len(UpperAlphabet) : CharAt(UpperAlphabet, i) = c)]

LowerChar(c) == IF c \in DOMAIN LowerTable THEN LowerTable[c] ELSE c

RECURSIVE toLowerCase(_)
toLowerCase(s) ==
  IF Len(s) = 0 THEN "" ELSE LowerChar(CharAt(s, 1)) \o toLowerCase(Tail(s))

\* String.prototype.includes
Includes(s, sub) ==
  \E i \in 1..(Len(s) - Len(sub) + 1) : SubSeq(s, i, i + Len(sub) - 1) = sub

Range(seq) == {seq[i] : i \in 1..Len(seq)}

\* Set.prototype.add on an insertion-ordered Set kept as a duplicate-free sequence
SetAdd(seq, x) == IF x \in Range(seq) THEN seq ELSE Append(seq, x)

\* Set.prototype.delete
RECURSIVE SetDelete(_, _)
SetDelete(seq, x) ==
  IF Len(seq) = 0 THEN <<>>
  ELSE IF Head(seq) = x THEN SetDelete(Tail(seq), x)
  ELSE <<Head(seq)>> \o SetDelete(Tail(seq), x)

\* [...new Set(seq)]
RECURSIVE Dedup(_, _)
Dedup(seq, acc) ==
  IF Len(seq) = 0 THEN acc ELSE Dedup(Tail(seq), SetAdd(acc, Head(seq)))

NoDuplicates(seq) == \A i, j \in 1..Len(seq) : i # j => seq[i] # seq[j]

(* --------------------------- pantry clean-up -------------------------- *)
WHITELIST == <<
  "banana", "broccoli", "chickpeas", "beans", "kidney beans", "tomatoes",
  "onion", "garlic", "ginger", "olive oil", "pasta", "spaghetti",
  "courgette", "feta", "orzo", "rice", "egg", "spring onion", "lemon",
  "orange", "avocado", "coconut milk", "coconut cream", "butternut squash",
  "squash", "carrot", "pepper", "bell pepper", "spinach", "potato",
  "mushroom", "cheese", "cheddar", "yogurt", "milk", "almond milk",
  "chicken", "chicken breast", "beef", "pork", "fish", "salmon", "tuna",
  "bread", "tortilla", "wrap", "lentils", "cucumber", "lettuce", "cabbage",
  "kale", "apple", "pear", "oats", "flour", "sugar", "butter", "salt",
  "pepper", "stock cube", "curry powder", "mixed dried herbs",
  "garam masala", "maggi seasoning", "jeera", "cumin", "cloves" >>

WhitelistSet == Range(WHITELIST)

\* MAP with one synonym also entered the wrong way round
MapOwn_ReversedSynonym ==
  [ bananas |-> "banana", chickpea |-> "chickpeas", garbanzo |-> "chickpeas",
    zucchini |-> "courgette", courgettes |-> "courgette",
    tomato |-> "tomatoes", tomatoes |-> "tomato", onions |-> "onion",
    eggs |-> "egg", brockley |-> "broccoli", maggi |-> "maggi seasoning" ]
  @@ ("garbanzo bean" :> "chickpeas") @@ ("garbanzo beans" :> "chickpeas")
  @@ ("jeera powder" :> "jeera")

\* the own properties of the MAP object literal
MapOwn ==
  [ bananas |-> "banana", chickpea |-> "chickpeas", garbanzo |-> "chickpeas",
    zucchini |-> "courgette", courgettes |-> "courgette",
    tomato |-> "tomatoes", onions |-> "onion", eggs |-> "egg",
    brockley |-> "broccoli", maggi |-> "maggi seasoning" ]
  @@ ("garbanzo bean" :> "chickpeas") @@ ("garbanzo beans" :> "chickpeas")
  @@ ("jeera powder" :> "jeera")

\* A JavaScript value met by cleanPantry: a string, or what a property read
\* through Object.prototype gives (MAP is a plain object literal).
\* len is the value's .length; -1 stands for undefined (every >= test fails).
StrVal(s) == [kind |-> "string", str |-> s, len |-> Len(s)]
ObjectConstructor == [kind |-> "function", str |-> "", len |-> 1]
ObjectPrototype == [kind |-> "object", str |-> "", len |-> -1]

\* MAP[t0]: own keys first, then the prototype chain of the literal.
\* t0 is lowercase, so only all-lowercase inherited names can be hit.
MAP(t0) ==
  IF t0 \in DOMAIN MapOwn THEN <<StrVal(MapOwn[t0])>>
  ELSE IF t0 = "constructor" THEN <<ObjectConstructor>>
  ELSE IF t0 = "__proto__" THEN <<ObjectPrototype>>
  ELSE <<>>

\* MAP[t0] || t0   (every value MAP can give is truthy)
MapOrSelf(t0) == IF Len(MAP(t0)) > 0 THEN MAP(t0)[1] ELSE StrVal(t0)

\* arr.map(x => String(x).toLowerCase()) then [...new Set(..)]
uniqLower_KeepsCase(arr) == Dedup(arr, <<>>)

uniqLower(arr) == Dedup([i \in 1..Len(arr) |-> toLowerCase(arr[i])], <<>>)

\* One row of the matrix m of lev: row i from row i-1, left to right.
\* Column j of a row is kept at index j+1.
RECURSIVE LevFillRow(_, _, _, _, _, _)
LevFillRow(a, b, prev, i, j, acc) ==
  IF j > Len(a) THEN acc
  ELSE LET up == prev[j + 1] + 1
           left == acc[j] + 1
           diag == prev[j] + (IF SubSeq(b, i, i) = SubSeq(a, j, j) THEN 0 ELSE 1)
           cell == IF up <= left /\ up <= diag THEN up
                   ELSE IF left <= diag THEN left ELSE diag
       IN IF cell >= 0 THEN LevFillRow(a, b, prev, i, j + 1, Append(acc, cell))
          ELSE acc

RECURSIVE LevRows(_, _, _, _)
LevRows(a, b, i, prev) ==
  IF i > Len(b) THEN prev
  ELSE LET row == LevFillRow(a, b, prev, i, 1, <<i>>)
       IN IF Len(row) > 0 THEN LevRows(a, b, i + 1, row) ELSE row

lev(a, b) == LevRows(a, b, 1, [j \in 1..(Len(a) + 1) |-> j - 1])[Len(a) + 1]

\* the iteration with "d <= bestDist": the last nearest term wins
NearestStep_LastWins(term, i, st) ==
  LET d == lev(term, WHITELIST[i])
  IN IF d <= st[2] THEN << <<WHITELIST[i]>>, d >> ELSE st

\* one iteration of the for-loop of nearestWhitelistStrict on WHITELIST[i];
\* the loop state st is <<best, bestDist>>, best = <<>> stands for null
NearestStep(term, i, st) ==
  LET d == lev(term, WHITELIST[i])
  IN IF d < st[2] THEN << <<WHITELIST[i]>>, d >> ELSE st

\* iterations lo..hi of the for-loop, in WHITELIST order (the range is
\* halved only to keep the evaluation stack shallow)
RECURSIVE NearestLoop(_, _, _, _)
NearestLoop(term, lo, hi, st) ==
  IF lo > hi THEN st
  ELSE IF lo = hi THEN NearestStep(term, lo, st)
  ELSE LET mid == (lo + hi) \div 2
           left == NearestLoop(term, lo, mid, st)
       IN IF left[2] >= 0 THEN NearestLoop(term, mid + 1, hi, left) ELSE left

\* <<w>> for a vocabulary term w, <<>> for null
nearestWhitelistStrict(term) ==
  LET r == NearestLoop(term, 1, Len(WHITELIST), << <<>>, 2 >>)
  IN IF r[2] <= 1 THEN r[1] ELSE <<>>

\* nearestWhitelistStrict tabulated once for the terms the model's tokens
\* give (same value as nearestWhitelistStrict(term), computed otherwise)
TabulatedTerms ==
  {"banana", "brocoli", "brocli", "coconut", "milks", "kidney", "jeans",
   "constructor", "__proto__", "plastic container", "beef stock", "perk",
   "sale", "bean", "tomato", "chickpea", "beanss", "beefs", "gravy granules"}
NearestTable == [t \in TabulatedTerms |-> nearestWhitelistStrict(t)]
nearest(term) ==
  IF term \in TabulatedTerms THEN NearestTable[term] ELSE nearestWhitelistStrict(term)

\* the loop body adding the matched token instead of the vocabulary term
CleanStep_AddsToken(out, t0) ==
  LET t == MapOrSelf(t0)
  IN IF t.kind = "string" /\ t.str \in WhitelistSet THEN SetAdd(out, t.str)
     ELSE IF t.len >= 5
       THEN LET near == nearest(t.str)
            IN IF Len(near) > 0 THEN SetAdd(out, t.str) ELSE out
       ELSE out

\* the loop body with the length gate at 4
CleanStep_Gate4(out, t0) ==
  LET t == MapOrSelf(t0)
  IN IF t.kind = "string" /\ t.str \in WhitelistSet THEN SetAdd(out, t.str)
     ELSE IF t.len >= 4
       THEN LET near == nearest(t.str)
            IN IF Len(near) > 0 THEN SetAdd(out, near[1]) ELSE out
       ELSE out

\* body of the for-loop of cleanPantry for one lowercased token t0
CleanStep(out, t0) ==
  LET t == MapOrSelf(t0)
  IN IF t.kind = "string" /\ t.str \in WhitelistSet THEN SetAdd(out, t.str)
     ELSE IF t.len >= 5
       THEN LET near == nearest(t.str)
            IN IF Len(near) > 0 THEN SetAdd(out, near[1]) ELSE out
       ELSE out

RECURSIVE CleanLoop(_, _)
CleanLoop(toks, out) ==
  IF Len(toks) = 0 THEN out ELSE CleanLoop(Tail(toks), CleanStep(out, Head(toks)))

cleanPantry(raw) == CleanLoop(uniqLower(raw), <<>>)

(* ------------------- image-path token pre-processing ------------------ *)
SeasoningWords == {"seasoning", "stock", "bouillon", "gravy"}
meatWords == {"beef", "chicken", "lamb", "pork", "ham", "turkey", "steak"}

RECURSIVE FilterOut(_, _)
FilterOut(seq, S) ==
  IF Len(seq) = 0 THEN <<>>
  ELSE IF Head(seq) \in S THEN FilterOut(Tail(seq), S)
  ELSE <<Head(seq)>> \o FilterOut(Tail(seq), S)

stripMeatWhenSeasoning(tokens) ==
  LET lower == [i \in 1..Len(tokens) |-> toLowerCase(tokens[i])]
      hasSeasoningWord ==
        \E i \in 1..Len(lower) : \E w \in SeasoningWords : Includes(lower[i], w)
  IN IF ~hasSeasoningWord THEN tokens ELSE FilterOut(lower, meatWords)

addPhraseCombos(tokens) ==
  LET base == FilterOut([i \in 1..Len(tokens) |-> toLowerCase(tokens[i])], {""})
      set == Range(base)
      out0 == Dedup(base, <<>>)
      out1 == IF "coconut" \in set /\ "milk" \in set
                THEN SetDelete(SetAdd(out0, "coconut milk"), "milk")
                ELSE out0
      out2 == IF "kidney" \in set /\ "beans" \in set
                THEN SetDelete(SetAdd(out1, "kidney beans"), "beans")
                ELSE out1
  IN out2

\* the image path of the handler that pre-processes the vision tokens
visionPantry(rawTokens) ==
  cleanPantry(addPhraseCombos(stripMeatWhenSeasoning(rawTokens)))

(* ------------------------------ classifiers --------------------------- *)
DESSERT ==
  {"dessert", "pudding", "ice cream", "smoothie", "shake", "cookie", "brownie",
   "cupcake", "cake", "muffin", "pancake", "waffle", "jam", "jelly", "compote",
   "truffle", "fudge", "sorbet", "parfait", "custard", "tart", "shortbread",
   "licorice", "cobbler"}
DRINK ==
  {"drink", "beverage", "mocktail", "cocktail", "margarita", "mojito",
   "spritzer", "soda", "punch", "toddy"}
ALCOHOL ==
  {"brandy", "rum", "vodka", "gin", "whisky", "whiskey", "bourbon", "tequila",
   "wine", "liqueur", "amaretto", "cognac", "port", "sherry"}
GENERIC == {"pasta", "rice", "bread", "flour", "sugar", "oil", "salt", "pepper"}
ExcludedDishTypes == {"drink", "beverage", "cocktail", "dessert"}
FishTitleWords == {"shrimp", "prawn", "salmon", "tuna", "anchovy", "sardine"}
FishPantryWords == {"shrimp", "prawn", "salmon", "tuna", "fish"}

\* the words callVision keeps from the OCR text
FOODISH ==
  {"ingredients", "organic", "sauce", "soup", "canned", "tin", "dried",
   "fresh", "frozen", "beans", "peas", "lentils", "broccoli", "banana",
   "tomato", "tomatoes", "onion", "garlic", "squash", "chickpea", "chickpeas",
   "feta", "rice", "pasta", "spaghetti", "oats", "milk", "yogurt", "cheese",
   "lemon", "orange", "pepper", "spinach", "mushroom", "potato", "avocado",
   "coconut", "cream", "egg"}

RECURSIVE SelectSeq2(_, _)
\* arr.filter(keep) with keep given as the set of kept positions
SelectSeq2(seq, keepIdx) ==
  IF Len(seq) = 0 THEN <<>>
  ELSE LET rest == SelectSeq2(SubSeq(seq, 1, Len(seq) - 1), keepIdx)
       IN IF Len(seq) \in keepIdx THEN Append(rest, seq[Len(seq)]) ELSE rest

LowerAll(seq) == [i \in 1..Len(seq) |-> toLowerCase(seq[i])]

(* -------------------------------- vision ------------------------------ *)
\* what callVision returns for an annotate response body:
\* words are the [^a-z]+-separated pieces of the lowercased OCR text
VisionResult(body) ==
  LET words == LowerAll(body.words)
  IN [ ocrTokens |-> SelectSeq2(words, {i \in 1..Len(words) :
                                          Len(words[i]) >= 3 /\ words[i] \in FOODISH}),
       labels |-> LowerAll(body.labels),
       objects |-> LowerAll(body.objects) ]

(* ------------------------------ Spoonacular --------------------------- *)
Max2(m, n) == IF m >= n THEN m ELSE n

\* prefs?.time ?? 25, prefs.time kept as <<>> (absent) or <<minutes>>
PrefTime(prefs) == IF Len(prefs.time) > 0 THEN prefs.time[1] ELSE 25

TimeCap(prefs) == Max2(10, PrefTime(prefs) + 10)

\* the predicate of raw.filter in spoonacularRecipes
StrictKeep(it, pantryList, prefs) ==
  LET title == toLowerCase(it.title)
      dish == LowerAll(it.dishTypes)
      specific == {sp \in Range(pantryList) : sp \notin GENERIC}
      ingNames == LowerAll(it.extendedIngredients)
  IN /\ ~ \E w \in DESSERT : Includes(title, w)
     /\ ~ \E w \in DRINK : Includes(title, w)
     /\ ~ \E w \in ALCOHOL : Includes(title, w)
     /\ ~ \E d \in Range(dish) : d \in ExcludedDishTypes
     /\ ~ (it.usedIngredientCount < 2)
     /\ ~ (it.readyInMinutes > TimeCap(prefs))
     /\ (Cardinality(specific) >= 2 =>
           \E sp \in specific : \E k \in 1..Len(ingNames) : Includes(ingNames[k], sp))
     /\ ((\E w \in FishTitleWords : Includes(title, w)) =>
           \E q \in Range(pantryList) : q \in FishPantryWords)

\* Math.min(time, 60)
Min60(t) == IF t <= 60 THEN t ELSE 60

\* The (used, missed, Math.min(time, 60)) at which the exact value of
\* 100 * score is a half-integer and the double arithmetic of line 1401-1403
\* lands just below it, so that Math.round goes down. Tabulated for
\* used <= 14, missed <= 5 and the capped times 0, 20, 30, 50, 60; at every
\* other half-integer in that range the double is at or above the half.
FloatTiesDown ==
  { <<1, 2, 30>>, <<1, 2, 50>>, <<2, 5, 30>>, <<2, 5, 50>>,
    <<3, 0, 20>>, <<3, 0, 50>>, <<3, 0, 60>>, <<6, 1, 20>>, <<6, 1, 50>>, <<6, 1, 60>>,
    <<9, 2, 20>>, <<9, 2, 50>>, <<9, 2, 60>>, <<12, 3, 20>>, <<12, 3, 50>>, <<12, 3, 60>> }

\* Math.round(score * 100), the score in hundredths, where
\* score = 0.7 * (used / (used + missed + 1)) + 0.3 * (1 - Math.min(time, 60) / 60):
\* 100 * score = 70 used / d + 30 - min60 / 2 with d = used + missed + 1
\* the score with the ready time taken uncapped
Score100_NoTimeCap(used, missed, time) ==
  LET d == used + missed + 1
      twice == 140 * used + (60 - time) * d
  IN (twice + d) \div (2 * d)

Score100(used, missed, time) ==
  LET d == used + missed + 1
      twice == 140 * used + (60 - Min60(time)) * d   \* 2 d * (100 * score)
      halfUp == (twice + d) \div (2 * d)
  IN IF (twice + d) % (2 * d) = 0 /\ <<used, missed, Min60(time)>> \in FloatTiesDown
       THEN halfUp - 1
       ELSE halfUp

\* one element of scored; score is kept in hundredths
SpoonRecipe(it, pantryList) ==
  [ id |-> ToString(it.id),
    title |-> it.title,
    time |-> it.readyInMinutes,
    score |-> Score100(it.usedIngredientCount, it.missedIngredientCount,
                       it.readyInMinutes),
    ingredients |-> [k \in 1..Len(it.extendedIngredients) |->
                       [ name |-> toLowerCase(it.extendedIngredients[k]),
                         have |-> toLowerCase(it.extendedIngredients[k]) \in Range(pantryList) ]],
    badges |-> <<"web">> ]

\* the results of spoonacularRecipes once the response body is j.results = rawList
SpoonScored(rawList, pantryList, prefs) ==
  LET filtered == SelectSeq2(rawList, {i \in 1..Len(rawList) :
                                         StrictKeep(rawList[i], pantryList, prefs)})
      baseList == IF Len(filtered) > 0 THEN filtered ELSE rawList
  IN [k \in 1..Len(baseList) |-> SpoonRecipe(baseList[k], pantryList)]

\* the list spoonP settles with, by what the provider did:
\*   "no-key"      SPOON_KEY unset, no request made
\*   "fetch-error" tfetch rejected (abort at 2000 ms, network error)
\*   "no-results"  a body without a results array (non-success, unparsable)
\*   "results"     a body whose results array is outcome.list
\*   "malformed"   a results entry the filter throws on: spoonP is rejected
\*                 and Promise.allSettled leaves spoonList = []
spoonacularRecipes(pantryList, prefs, outcome) ==
  IF outcome.kind = "results" THEN SpoonScored(outcome.list, pantryList, prefs)
  ELSE <<>>

(* --------------------------------- LLM -------------------------------- *)
\* the recipe llmRecipes builds from the parsed JSON object base;
\* base.id, base.time and base.ingredients are <<>> when the field is missing
LlmRecipe(base, pantryList, nowMs) ==
  [ id |-> IF Len(base.id) > 0 THEN base.id[1] ELSE "llm-" \o ToString(nowMs),
    title |-> IF base.title # "" THEN base.title ELSE "Pantry Dinner",
    time |-> IF Len(base.time) > 0 THEN base.time[1] ELSE 25,
    ingredients |->
      IF Len(base.ingredients) > 0
        THEN [k \in 1..Len(base.ingredients[1]) |->
                [ name |-> toLowerCase(base.ingredients[1][k].name),
                  have |-> base.ingredients[1][k].have
                            \/ toLowerCase(base.ingredients[1][k].name) \in Range(pantryList) ]]
        ELSE [k \in 1..Len(pantryList) |-> [name |-> pantryList[k], have |-> TRUE]],
    badges |-> <<"llm">> ]

\* the list llmP settles with:
\*   "no-key"       OPENAI_API_KEY unset, no request made
\*   "fetch-error"  tfetch rejected (abort at 11000 ms, network error)
\*   "api-error"    the body carries an error member
\*   "no-content"   no message content in the body
\*   "parse-failed" the content is not JSON
\*   "recipe"       the content parses to outcome.base
\*   "malformed"    an ingredients entry the mapping throws on: llmP is rejected
llmRecipes(pantryList, prefs, outcome, nowMs) ==
  IF outcome.kind = "recipe" THEN <<LlmRecipe(outcome.base, pantryList, nowMs)>>
  ELSE <<>>

(* ------------------------------ emergency ----------------------------- *)
\* bits.join(" ")
RECURSIVE JoinWithSpace(_)
JoinWithSpace(bits) ==
  IF Len(bits) = 0 THEN ""
  ELSE IF Len(bits) = 1 THEN bits[1]
  ELSE bits[1] \o " " \o JoinWithSpace(Tail(bits))

\* the recipe without the pantry entries in its ingredients
emergencyRecipe_BaseOnly(pantryList, nowMs) ==
  [ id |-> "local-" \o ToString(nowMs),
    title |-> "Pantry Savoury Skillet",
    time |-> 15,
    ingredients |-> << [name |-> "onion (or onion powder)",
                        have |-> "onion" \in Range(pantryList)] >>,
    badges |-> <<"local">> ]

\* the recipe with every flavor-base entry marked as not in the pantry
emergencyRecipe_BaseNeverHave(pantryList, nowMs) ==
  [ id |-> "local-" \o ToString(nowMs),
    title |-> "Pantry Savoury Skillet",
    time |-> 15,
    ingredients |->
      [k \in 1..Len(pantryList) |-> [name |-> pantryList[k], have |-> TRUE]]
      \o << [name |-> "onion (or onion powder)", have |-> FALSE],
             [name |-> "garlic (or garlic powder)", have |-> FALSE],
             [name |-> "ginger (or ground ginger)", have |-> FALSE],
             [name |-> "mixed dried herbs", have |-> FALSE],
             [name |-> "stock cube", have |-> FALSE],
             [name |-> "lemon or vinegar", have |-> FALSE],
             [name |-> "salt & black pepper", have |-> FALSE] >>,
    badges |-> <<"local">> ]

emergencyRecipe(pantryList, nowMs) ==
  LET has(w) == w \in Range(pantryList)
      bitChickpea == IF \E q \in Range(pantryList) : Includes(q, "chickpea")
                       THEN <<"Chickpea">> ELSE <<>>
      bitCoconut == IF has("coconut milk") THEN <<"Coconut">> ELSE <<>>
      bitPasta == IF \E q \in Range(pantryList) :
                        Includes(q, "pasta") \/ Includes(q, "spaghetti")
                    THEN <<"Pasta">> ELSE <<>>
      titleBits == bitChickpea \o bitCoconut \o bitPasta
      baseIngs ==
        << [name |-> "onion (or onion powder)", have |-> has("onion")],
           [name |-> "garlic (or garlic powder)", have |-> has("garlic")],
           [name |-> "ginger (or ground ginger)", have |-> has("ginger")],
           [name |-> "mixed dried herbs", have |-> has("mixed dried herbs")],
           [name |-> "stock cube", have |-> has("stock cube")],
           [name |-> "lemon or vinegar", have |-> has("lemon") \/ has("vinegar")],
           [name |-> "salt & black pepper", have |-> has("salt") \/ has("black pepper")] >>
      uniqPantry == [k \in 1..Len(pantryList) |-> [name |-> pantryList[k], have |-> TRUE]]
  IN [ id |-> "local-" \o ToString(nowMs),
       title |-> (IF Len(titleBits) > 0 THEN JoinWithSpace(titleBits) ELSE "Pantry")
                   \o " Savoury Skillet",
       time |-> 15,
       ingredients |-> uniqPantry \o baseIngs,
       badges |-> <<"local">> ]

(* ------------------------- merge in runAnalyze ------------------------ *)
\* the for-loop over llmList: push the recipes whose id is new, stop at 3
RECURSIVE PushNew(_, _)
PushNew(combined, recs) ==
  IF Len(recs) = 0 THEN combined
  ELSE IF \E k \in 1..Len(combined) : combined[k].id = Head(recs).id
    THEN PushNew(combined, Tail(recs))
  ELSE IF Len(combined) + 1 >= 3 THEN Append(combined, Head(recs))
  ELSE PushNew(Append(combined, Head(recs)), Tail(recs))

\* the merge with the generative list taken first
Combine_LlmFirst(spoonRecs, llmRecs, pantryList, nowMs) ==
  LET c1 == IF Len(llmRecs) < 3 /\ Len(spoonRecs) > 0 THEN PushNew(llmRecs, spoonRecs)
            ELSE llmRecs
  IN IF Len(c1) = 0 THEN <<emergencyRecipe(pantryList, nowMs)>>
     ELSE IF Len(c1) > 3 THEN SubSeq(c1, 1, 3)
     ELSE c1

Combine_NoEmergency(spoonRecs, llmRecs, pantryList, nowMs) ==
  LET c0 == IF Len(spoonRecs) > 0 THEN spoonRecs ELSE <<>>
      c1 == IF Len(c0) < 3 /\ Len(llmRecs) > 0 THEN PushNew(c0, llmRecs) ELSE c0
  IN IF Len(c1) > 3 THEN SubSeq(c1, 1, 3) ELSE c1

Combine(spoonRecs, llmRecs, pantryList, nowMs) ==
  LET c0 == IF Len(spoonRecs) > 0 THEN spoonRecs ELSE <<>>
      c1 == IF Len(c0) < 3 /\ Len(llmRecs) > 0 THEN PushNew(c0, llmRecs) ELSE c0
  IN IF Len(c1) = 0 THEN <<emergencyRecipe(pantryList, nowMs)>>
     ELSE IF Len(c1) > 3 THEN SubSeq(c1, 1, 3)
     ELSE c1

(* ------------------------------- state -------------------------------- *)
VARIABLES
  \* the pantry functions applied to bounded inputs
  input,     \* the raw token list given to a pantry function
  inTerm,    \* the term given to nearestWhitelistStrict
  applied,   \* which function has been applied: "none" before any
  prior,     \* the result of the previous application
  result,    \* the result of the last application
  \* one request going through handler
  env,       \* which of GCV_KEY, SPOON_KEY, OPENAI_API_KEY are set
  req,       \* the incoming request: method, how its body arrives, the body
  hpc,       \* where handler is: "entry", "readBody", "analyze", "done"
  hBody,     \* handler's body: <<>> until readJsonBody resolves, then <<body>>
  wdFinished,\* the finished flag of withTimeout(runAnalyze, 12000, "watchdog")
  apc,       \* where runAnalyze is: "idle", "vision", "providers", "returned"
  aPantry,   \* runAnalyze's pantry
  aSource,   \* runAnalyze's source
  aOut,      \* <<>> until runAnalyze returns, then <<the value returned>>
  spoonTask, \* spoonP: [st |-> "none" | "pending" | "settled", val |-> list,
             \*         raw |-> the results array the provider sent]
  llmTask,   \* llmP: [st, val, parsed |-> <<>> or <<the object the content parsed to>>]
  settleOrder, \* the providers whose promise has settled, in the order they did
  calls,     \* requests made to the vision, search and generative providers
  response,  \* what sendJson has written, in order
  sentCount  \* number of sendJson calls

fvars == <<input, inTerm, applied, prior, result>>
hvars == <<env, req, hpc, hBody, wdFinished, apc, aPantry, aSource, aOut,
           spoonTask, llmTask, settleOrder, calls, response, sentCount>>
vars == <<input, inTerm, applied, prior, result,
          env, req, hpc, hBody, wdFinished, apc, aPantry, aSource, aOut,
          spoonTask, llmTask, settleOrder, calls, response, sentCount>>

\* no request is being handled
HandlerIdle ==
  /\ env = [GCV_KEY |-> FALSE, SPOON_KEY |-> FALSE, OPENAI_API_KEY |-> FALSE]
  /\ req = [method |-> "POST", bodyKind |-> "stalled"]
  /\ hpc = "idle"
  /\ hBody = <<>>
  /\ wdFinished = FALSE
  /\ apc = "idle"
  /\ aPantry = <<>>
  /\ aSource = ""
  /\ aOut = <<>>
  /\ spoonTask = [st |-> "none", val |-> <<>>, raw |-> <<>>]
  /\ llmTask = [st |-> "none", val |-> <<>>, parsed |-> <<>>]
  /\ settleOrder = <<>>
  /\ calls = [vision |-> 0, spoon |-> 0, llm |-> 0]
  /\ response = <<>>
  /\ sentCount = 0

\* no pantry function is being applied
FunctionsIdle ==
  /\ input = <<>>
  /\ inTerm = ""
  /\ applied = "idle"
  /\ prior = <<>>
  /\ result = <<>>

(* ----------------- the pantry functions on bounded inputs ------------- *)
RawTokens ==
  {"Banana", "banana", "BROCCOLI", "brocoli", "bean", "coconut", "milk", "milks",
   "kidney", "beans", "jeans", "constructor", "__proto__", "tomato",
   "plastic container"}

Terms == {"brocoli", "brocli", "perk", "sale", "banana", "bean", "milks", "plastic container"}

SeqsUpTo(S, n) == UNION {[1..k -> S] : k \in 0..n}

PantryInit ==
  /\ input \in SeqsUpTo(RawTokens, MaxRaw)
  /\ inTerm = ""
  /\ applied = "none"
  /\ prior = <<>>
  /\ result = <<>>
  /\ HandlerIdle

ApplyCleanPantry ==
  /\ applied = "none"
  /\ applied' = "cleanPantry"
  /\ prior' = result
  /\ result' = cleanPantry(input)
  /\ UNCHANGED <<input, inTerm>>
  /\ UNCHANGED hvars

\* the output list handed back in as the input
ApplyCleanPantryAgain ==
  /\ applied = "cleanPantry"
  /\ applied' = "cleanPantryAgain"
  /\ prior' = result
  /\ result' = cleanPantry(result)
  /\ UNCHANGED <<input, inTerm>>
  /\ UNCHANGED hvars

ApplyVisionPantry ==
  /\ applied = "none"
  /\ applied' = "visionPantry"
  /\ prior' = result
  /\ result' = visionPantry(input)
  /\ UNCHANGED <<input, inTerm>>
  /\ UNCHANGED hvars

ApplyNearest ==
  /\ applied = "none"
  /\ input = <<>>
  /\ \E t \in Terms :
       /\ inTerm' = t
       /\ result' = nearestWhitelistStrict(t)
  /\ applied' = "nearestWhitelistStrict"
  /\ prior' = result
  /\ UNCHANGED input
  /\ UNCHANGED hvars

PantryNext ==
  \/ ApplyCleanPantry
  \/ ApplyCleanPantryAgain
  \/ ApplyVisionPantry
  \/ ApplyNearest

PantrySpec == PantryInit /\ [][PantryNext]_vars

\* the same functions on label tokens of meat and seasoning products
MeatTokens == {"Beef stock", "beef", "Chicken", "beefs", "onion", "ham", "gravy granules"}

MeatInit ==
  /\ input \in SeqsUpTo(MeatTokens, MaxRaw)
  /\ inTerm = ""
  /\ applied = "none"
  /\ prior = <<>>
  /\ result = <<>>
  /\ HandlerIdle

MeatSpec == MeatInit /\ [][PantryNext]_vars

(* ------------------------ the score on bounded inputs ----------------- *)
MaxUsed == 11
MaxMissed == 2

ScoreTimes == {0, 20, 60, 90}

\* input is <<used, a larger used, missed, readyInMinutes>>
ScoreInit ==
  /\ input \in {<<u, v, m, t>> : u \in 0..MaxUsed, v \in 1..(MaxUsed + 1),
                                  m \in 0..MaxMissed, t \in ScoreTimes}
  /\ input[1] < input[2]
  /\ inTerm = ""
  /\ applied = "none"
  /\ prior = <<>>
  /\ result = <<>>
  /\ HandlerIdle

\* the score of the smaller used count in prior, of the larger in result
ApplyScore ==
  /\ applied = "none"
  /\ applied' = "score"
  /\ prior' = Score100(input[1], input[3], input[4])
  /\ result' = Score100(input[2], input[3], input[4])
  /\ UNCHANGED <<input, inTerm>>
  /\ UNCHANGED hvars

ScoreNext == ApplyScore

ScoreSpec == ScoreInit /\ [][ScoreNext]_vars

(* --------------------------- one request ------------------------------ *)
MaxNow == 2

\* the values Date.now() can have when a recipe id is built
Times == 1..MaxNow

Methods == {"POST", "GET"}

\* how the request body arrives: "json" a JSON object, "empty" no bytes,
\* "too-large" more than 3,500,000 characters, "invalid-json" bytes that
\* JSON.parse rejects, "stalled" a stream that never ends
BodyKinds == {"json", "empty", "too-large", "invalid-json", "stalled"}

\* pantryOverride: <<>> when missing (or no array), else <<the array>>
Overrides ==
  { <<>>, << <<>> >>,
    << <<"chickpeas", "tomato", "onion", "garlic">> >>,
    << <<"plastic container", "bean">> >> }

\* mode and prefs.pantryOnly
PantryOnlyChoices ==
  { [mode |-> "", pantryOnly |-> FALSE],
    [mode |-> "pantryOnly", pantryOnly |-> FALSE],
    [mode |-> "", pantryOnly |-> TRUE] }

PrefTimes == { <<>>, <<20>> }

Bodies ==
  { [ imageBase64 |-> im, pantryOverride |-> ov, mode |-> po.mode,
      prefs |-> [pantryOnly |-> po.pantryOnly, time |-> tm] ] :
      im \in BOOLEAN, ov \in Overrides, po \in PantryOnlyChoices, tm \in PrefTimes }

\* what readJsonBody returns for no bytes: {}
EmptyBody ==
  [ imageBase64 |-> FALSE, pantryOverride |-> <<>>, mode |-> "",
    prefs |-> [pantryOnly |-> FALSE, time |-> <<>>] ]

Requests ==
  { [method |-> "GET", bodyKind |-> "empty", body |-> EmptyBody] }
  \cup { [method |-> "POST", bodyKind |-> bk, body |-> EmptyBody] :
           bk \in BodyKinds \ {"json"} }
  \cup { [method |-> "POST", bodyKind |-> "json", body |-> bd] : bd \in Bodies }

\* responses of the labeling provider: the words of the detected text, the
\* label descriptions and the object names
VisionBodies ==
  { [words |-> <<>>, labels |-> <<>>, objects |-> <<>>],
    [words |-> <<"chickpeas", "net", "tomatos">>, labels |-> <<"Food", "Tin can">>,
     objects |-> <<"Onion">>],
    [words |-> <<"coconut", "milk">>, labels |-> <<"Ingredient">>, objects |-> <<>>] }

VisionOutcomes ==
  { [kind |-> "fetch-error"], [kind |-> "bad-json"] }
  \cup { [kind |-> "annotated", body |-> vb] : vb \in VisionBodies }

CandCurry ==
  [ id |-> 101, title |-> "Chickpea Curry", dishTypes |-> <<"main course">>,
    usedIngredientCount |-> 3, missedIngredientCount |-> 1, readyInMinutes |-> 30,
    extendedIngredients |-> <<"Chickpeas", "onion", "curry paste">> ]
CandSoup ==
  [ id |-> 102, title |-> "Onion Soup", dishTypes |-> <<"soup">>,
    usedIngredientCount |-> 2, missedIngredientCount |-> 0, readyInMinutes |-> 20,
    extendedIngredients |-> <<"onion", "garlic">> ]
CandRice ==
  [ id |-> 103, title |-> "Tomato Rice", dishTypes |-> <<"main course">>,
    usedIngredientCount |-> 2, missedIngredientCount |-> 1, readyInMinutes |-> 20,
    extendedIngredients |-> <<"tomatoes", "rice">> ]
CandSalad ==
  [ id |-> 104, title |-> "Chickpea Salad", dishTypes |-> <<"salad">>,
    usedIngredientCount |-> 2, missedIngredientCount |-> 2, readyInMinutes |-> 20,
    extendedIngredients |-> <<"chickpeas", "tomatoes">> ]
CandBrownies ==
  [ id |-> 105, title |-> "Chocolate Fudge Brownies", dishTypes |-> <<"dessert">>,
    usedIngredientCount |-> 2, missedIngredientCount |-> 4, readyInMinutes |-> 20,
    extendedIngredients |-> <<"flour", "sugar">> ]
CandSalmon ==
  [ id |-> 106, title |-> "Grilled Salmon", dishTypes |-> <<"main course">>,
    usedIngredientCount |-> 2, missedIngredientCount |-> 1, readyInMinutes |-> 20,
    extendedIngredients |-> <<"salmon", "lemon">> ]

CandStew ==
  [ id |-> 107, title |-> "Slow Tomato Stew", dishTypes |-> <<"main course">>,
    usedIngredientCount |-> 2, missedIngredientCount |-> 2, readyInMinutes |-> 50,
    extendedIngredients |-> <<"tomatoes", "garlic">> ]

CandGarlicBread ==
  [ id |-> 108, title |-> "Garlic Bread", dishTypes |-> <<"side dish">>,
    usedIngredientCount |-> 2, missedIngredientCount |-> 1, readyInMinutes |-> 20,
    extendedIngredients |-> <<"bread", "butter">> ]

\* the results arrays of the search provider
SpoonLists ==
  { <<>>, <<CandCurry>>, <<CandBrownies>>, <<CandSoup, CandSalmon>>,
    <<CandSalmon>>, <<CandStew>>, <<CandCurry, CandStew>>, <<CandCurry, CandCurry>>,
    <<CandCurry, CandGarlicBread>>,
    <<CandCurry, CandSoup, CandRice>>,
    <<CandCurry, CandBrownies, CandSoup, CandRice, CandSalad>> }

SpoonOutcomes ==
  { [kind |-> "fetch-error"], [kind |-> "no-results"], [kind |-> "malformed"] }
  \cup { [kind |-> "results", list |-> ls] : ls \in SpoonLists }

\* the objects the generative provider's content parses to
LlmBases ==
  { [id |-> <<>>, title |-> "", time |-> <<>>, ingredients |-> <<>>],
    [id |-> <<"llm-curry">>, title |-> "Pantry Curry", time |-> <<20>>,
     ingredients |-> << <<[name |-> "Onion", have |-> FALSE],
                          [name |-> "cream", have |-> TRUE]>> >>],
    [id |-> <<"101">>, title |-> "Chickpea Stew", time |-> <<>>, ingredients |-> <<>>] }

LlmOutcomes ==
  { [kind |-> "fetch-error"], [kind |-> "api-error"], [kind |-> "no-content"],
    [kind |-> "parse-failed"], [kind |-> "malformed"] }
  \cup { [kind |-> "recipe", base |-> lb] : lb \in LlmBases }

Init ==
  /\ FunctionsIdle
  /\ env \in [GCV_KEY : BOOLEAN, SPOON_KEY : BOOLEAN, OPENAI_API_KEY : BOOLEAN]
  /\ req \in Requests
  /\ hpc = "entry"
  /\ hBody = <<>>
  /\ wdFinished = FALSE
  /\ apc = "idle"
  /\ aPantry = <<>>
  /\ aSource = ""
  /\ aOut = <<>>
  /\ spoonTask = [st |-> "none", val |-> <<>>, raw |-> <<>>]
  /\ llmTask = [st |-> "none", val |-> <<>>, parsed |-> <<>>]
  /\ settleOrder = <<>>
  /\ calls = [vision |-> 0, spoon |-> 0, llm |-> 0]
  /\ response = <<>>
  /\ sentCount = 0

\* sendJson(res, status, obj)
sendJson(status, obj) ==
  /\ response' = Append(response, [status |-> status, obj |-> obj])
  /\ sentCount' = sentCount + 1

\* runAnalyze returns ret: the then-callback of withTimeout either finds
\* finished set and drops the value, or resolves, and handler sends it
AnalyzeReturns_ProviderErrorStatus(ret) ==
  /\ apc' = "returned"
  /\ aOut' = <<ret>>
  /\ IF wdFinished
       THEN UNCHANGED <<wdFinished, hpc, response, sentCount>>
       ELSE /\ wdFinished' = TRUE
            /\ hpc' = "done"
            /\ sendJson(IF ret.debug.source = "vision-failed" THEN 502 ELSE 200, ret)

\* the value is sent without looking at finished
AnalyzeReturns_IgnoresFinished(ret) ==
  /\ apc' = "returned"
  /\ aOut' = <<ret>>
  /\ wdFinished' = TRUE
  /\ hpc' = "done"
  /\ sendJson(200, ret)

AnalyzeReturns(ret) ==
  /\ apc' = "returned"
  /\ aOut' = <<ret>>
  /\ IF wdFinished
       THEN UNCHANGED <<wdFinished, hpc, response, sentCount>>
       ELSE /\ wdFinished' = TRUE
            /\ hpc' = "done"
            /\ sendJson(200, ret)

\* runAnalyze stops at an await on a provider
AnalyzeWaits(at) ==
  /\ apc' = at
  /\ hpc' = IF hpc = "readBody" THEN "analyze" ELSE hpc
  /\ UNCHANGED <<wdFinished, response, sentCount, aOut>>

\* settled of Promise.allSettled([spoonP, llmP]): the values in the order of
\* the array given, whatever the order in which the promises settled
AllSettled_CompletionOrder(spoonRecs, llmRecs, order) ==
  IF order[1] = "llm" THEN <<llmRecs, spoonRecs>> ELSE <<spoonRecs, llmRecs>>

\* a join that gives up both lists when one provider brought nothing
AllSettled_FailFast(spoonRecs, llmRecs, order) ==
  IF spoonRecs = <<>> \/ llmRecs = <<>> THEN << <<>>, <<>> >> ELSE <<spoonRecs, llmRecs>>

AllSettled(spoonRecs, llmRecs, order) == <<spoonRecs, llmRecs>>

\* the return value of the full pipeline, from the settled provider lists on
MergeOut(spoonRecs, llmRecs, pantryList, src, nowMs) ==
  LET merged == Combine(spoonRecs, llmRecs, pantryList, nowMs)
  IN [ pantry |-> pantryList,
       recipes |-> merged,
       debug |-> [ source |-> src,
                   usedLLM |-> \E k \in 1..Len(merged) : "llm" \in Range(merged[k].badges) ] ]

\* the return value of the pantryOnly fast path
PantryOnlyOut_WithRecipe(pantryList, src, nowMs) ==
  [ pantry |-> pantryList, recipes |-> <<emergencyRecipe(pantryList, nowMs)>>,
    debug |-> [source |-> src, usedLLM |-> FALSE, mode |-> "pantryOnly"] ]

PantryOnlyOut_NoPantry(pantryList, src, nowMs) ==
  [ pantry |-> <<>>, recipes |-> <<>>,
    debug |-> [source |-> src, usedLLM |-> FALSE, mode |-> "pantryOnly"] ]

PantryOnlyOut(pantryList, src, nowMs) ==
  [ pantry |-> pantryList, recipes |-> <<>>,
    debug |-> [source |-> src, usedLLM |-> FALSE, mode |-> "pantryOnly"] ]

\* runAnalyze from the pantryOnly check on, with the pantry and source found;
\* bd is the request body, made is the provider requests made so far
AfterPantry(bd, pantryList, src, made, nowMs) ==
  /\ aPantry' = pantryList
  /\ aSource' = src
  /\ IF bd.mode = "pantryOnly" \/ bd.prefs.pantryOnly
       THEN /\ AnalyzeReturns(PantryOnlyOut(pantryList, src, nowMs))
            /\ calls' = made
            /\ UNCHANGED <<spoonTask, llmTask, settleOrder>>
       ELSE LET sp == IF env.SPOON_KEY
                        THEN [st |-> "pending", val |-> <<>>, raw |-> <<>>]
                        ELSE [st |-> "settled",
                              val |-> spoonacularRecipes(pantryList, bd.prefs,
                                                         [kind |-> "no-key"]),
                              raw |-> <<>>]
                ll == IF env.OPENAI_API_KEY
                        THEN [st |-> "pending", val |-> <<>>, parsed |-> <<>>]
                        ELSE [st |-> "settled",
                              val |-> llmRecipes(pantryList, bd.prefs,
                                                 [kind |-> "no-key"], nowMs),
                              parsed |-> <<>>]
                done == (IF env.SPOON_KEY THEN <<>> ELSE <<"spoon">>)
                          \o (IF env.OPENAI_API_KEY THEN <<>> ELSE <<"llm">>)
                settled == AllSettled(sp.val, ll.val, done)
            IN /\ spoonTask' = sp
               /\ llmTask' = ll
               /\ settleOrder' = done
               /\ calls' = [made EXCEPT
                              !.spoon = @ + (IF env.SPOON_KEY THEN 1 ELSE 0),
                              !.llm = @ + (IF env.OPENAI_API_KEY THEN 1 ELSE 0)]
               /\ IF sp.st = "settled" /\ ll.st = "settled"
                    THEN AnalyzeReturns(MergeOut(settled[1], settled[2], pantryList, src,
                                                 nowMs))
                    ELSE AnalyzeWaits("providers")

\* handler up to its first await
HandlerEntry ==
  /\ hpc = "entry"
  /\ IF req.method # "POST"
       THEN /\ sendJson(405, [error |-> "POST only"])
            /\ hpc' = "done"
       ELSE /\ hpc' = "readBody"
            /\ UNCHANGED <<response, sentCount>>
  /\ UNCHANGED <<env, req, hBody, wdFinished, apc, aPantry, aSource, aOut,
                 spoonTask, llmTask, settleOrder, calls>>
  /\ UNCHANGED fvars

\* the request stream ends with a body readJsonBody rejects
BodyRejected ==
  /\ hpc = "readBody"
  /\ req.bodyKind \in {"too-large", "invalid-json"}
  /\ IF req.bodyKind = "too-large"
       THEN sendJson(413, [error |-> "payload-too-large"])
       ELSE sendJson(400, [error |-> "invalid-json"])
  /\ hpc' = "done"
  /\ UNCHANGED <<env, req, hBody, wdFinished, apc, aPantry, aSource, aOut,
                 spoonTask, llmTask, settleOrder, calls>>
  /\ UNCHANGED fvars

\* the 3000 ms timer of readJsonBody fires before the stream has ended
BodyTimeout ==
  /\ hpc = "readBody"
  /\ sendJson(408, [error |-> "body-timeout"])
  /\ hpc' = "done"
  /\ UNCHANGED <<env, req, hBody, wdFinished, apc, aPantry, aSource, aOut,
                 spoonTask, llmTask, settleOrder, calls>>
  /\ UNCHANGED fvars

\* the request stream ends with a body that parses: handler starts
\* withTimeout(runAnalyze), which runs up to its first await on a provider
BodyParsed ==
  /\ hpc = "readBody"
  /\ req.bodyKind \in {"json", "empty"}
  /\ hBody' = <<req.body>>
  /\ \E now \in Times :
       IF Len(req.body.pantryOverride) > 0 /\ Len(req.body.pantryOverride[1]) > 0
         THEN AfterPantry(req.body, cleanPantry(req.body.pantryOverride[1]),
                          "pantryOverride", calls, now)
       ELSE IF req.body.imageBase64
         THEN IF env.GCV_KEY
                THEN /\ AnalyzeWaits("vision")
                     /\ calls' = [calls EXCEPT !.vision = @ + 1]
                     /\ UNCHANGED <<aPantry, aSource, spoonTask, llmTask, settleOrder>>
                ELSE AfterPantry(req.body, cleanPantry(<<>>), "vision", calls, now)
       ELSE /\ AnalyzeReturns([ pantry |-> <<>>, recipes |-> <<>>,
                                debug |-> [source |-> "no-input"] ])
            /\ UNCHANGED <<aPantry, aSource, spoonTask, llmTask, settleOrder, calls>>
  /\ UNCHANGED <<env, req>>
  /\ UNCHANGED fvars

\* callVision settles
VisionSettles ==
  /\ apc = "vision"
  /\ \E outcome \in VisionOutcomes, now \in Times :
       IF outcome.kind = "fetch-error"
         THEN AfterPantry(hBody[1], <<>>, "vision-failed", calls, now)
         ELSE LET visRes == VisionResult(IF outcome.kind = "annotated" THEN outcome.body
                                         ELSE [words |-> <<>>, labels |-> <<>>,
                                               objects |-> <<>>])
                  rawTokens == visRes.ocrTokens \o visRes.labels \o visRes.objects
              IN AfterPantry(hBody[1], cleanPantry(rawTokens), "vision", calls, now)
  /\ UNCHANGED <<env, req, hBody>>
  /\ UNCHANGED fvars

\* the search provider's request settles; the later of the two providers
\* to settle resumes runAnalyze at Promise.allSettled
SpoonSettles ==
  /\ apc = "providers"
  /\ spoonTask.st = "pending"
  /\ \E outcome \in SpoonOutcomes, now \in Times :
       LET got == spoonacularRecipes(aPantry, hBody[1].prefs, outcome)
           settled == AllSettled(got, llmTask.val, Append(settleOrder, "spoon"))
       IN /\ spoonTask' = [st |-> "settled", val |-> got,
                            raw |-> IF outcome.kind = "results" THEN outcome.list
                                    ELSE <<>>]
          /\ settleOrder' = Append(settleOrder, "spoon")
          /\ IF llmTask.st = "settled"
               THEN AnalyzeReturns(MergeOut(settled[1], settled[2], aPantry, aSource, now))
               ELSE UNCHANGED <<apc, hpc, wdFinished, response, sentCount, aOut>>
  /\ UNCHANGED <<env, req, hBody, aPantry, aSource, llmTask, calls>>
  /\ UNCHANGED fvars

\* the generative provider's request settles
LlmSettles ==
  /\ apc = "providers"
  /\ llmTask.st = "pending"
  /\ \E outcome \in LlmOutcomes, now \in Times :
       LET got == llmRecipes(aPantry, hBody[1].prefs, outcome, now)
           settled == AllSettled(spoonTask.val, got, Append(settleOrder, "llm"))
       IN /\ llmTask' = [st |-> "settled", val |-> got,
                          parsed |-> IF outcome.kind = "recipe" THEN <<outcome.base>>
                                     ELSE <<>>]
          /\ settleOrder' = Append(settleOrder, "llm")
          /\ IF spoonTask.st = "settled"
               THEN AnalyzeReturns(MergeOut(settled[1], settled[2], aPantry, aSource, now))
               ELSE UNCHANGED <<apc, hpc, wdFinished, response, sentCount, aOut>>
  /\ UNCHANGED <<env, req, hBody, aPantry, aSource, spoonTask, calls>>
  /\ UNCHANGED fvars

\* the fallback handler sends from its catch block
WatchdogFallback_KeepsPantry(pantryList, nowMs) ==
  [ pantry |-> pantryList,
    recipes |-> <<emergencyRecipe(pantryList, nowMs)>>,
    debug |-> [source |-> "watchdog", error |-> "watchdog"] ]

WatchdogFallback(pantryList, nowMs) ==
  [ pantry |-> <<>>,
    recipes |-> <<emergencyRecipe(<<>>, nowMs)>>,
    debug |-> [source |-> "watchdog", error |-> "watchdog"] ]

\* a timer that marks the run finished and rejects nothing
WatchdogFires_NoReject ==
  /\ hpc = "analyze"
  /\ ~wdFinished
  /\ wdFinished' = TRUE
  /\ UNCHANGED <<env, req, hpc, hBody, apc, aPantry, aSource, aOut, spoonTask, llmTask,
                 settleOrder, calls, response, sentCount>>
  /\ UNCHANGED fvars

\* the 12000 ms timer of withTimeout fires while runAnalyze awaits a provider;
\* runAnalyze itself goes on, its value is dropped when it returns
WatchdogFires ==
  /\ hpc = "analyze"
  /\ ~wdFinished
  /\ wdFinished' = TRUE
  /\ \E now \in Times : sendJson(200, WatchdogFallback(aPantry, now))
  /\ hpc' = "done"
  /\ UNCHANGED <<env, req, hBody, apc, aPantry, aSource, aOut, spoonTask, llmTask,
                 settleOrder, calls>>
  /\ UNCHANGED fvars

Next ==
  \/ HandlerEntry
  \/ BodyRejected
  \/ BodyTimeout
  \/ BodyParsed
  \/ VisionSettles
  \/ SpoonSettles
  \/ LlmSettles
  \/ WatchdogFires

Spec == Init /\ [][Next]_vars

\* handler runs once called, and the two timers fire when their time is up:
\* the 3000 ms timer of readJsonBody and the 12000 ms timer of withTimeout.
\* Nothing is assumed of the request stream or of the providers.
LiveSpec ==
  /\ Init
  /\ [][Next]_vars
  /\ WF_vars(HandlerEntry)
  /\ WF_vars(BodyTimeout)
  /\ WF_vars(WatchdogFires)

(* ------------------------ properties of handler ---------------------- *)
\* the request body supplies an image or a non-empty pantryOverride array
HasInput(bd) ==
  \/ Len(bd.pantryOverride) > 0 /\ Len(bd.pantryOverride[1]) > 0
  \/ bd.imageBase64

\* runAnalyze went past the pantryOnly check and has returned
FullPipelineReturned ==
  /\ apc = "returned"
  /\ spoonTask.st = "settled"
  /\ llmTask.st = "settled"

\* C1: the recipe list the full pipeline returns has between 1 and 3
\* entries, whatever the pantry, the preferences and the provider outcomes.
C1_RecipeCount ==
  FullPipelineReturned =>
    /\ Len(aOut[1].recipes) >= 1
    /\ Len(aOut[1].recipes) <= 3

C1_Witness ==
  /\ FullPipelineReturned
  /\ ~env.SPOON_KEY
  /\ ~env.OPENAI_API_KEY
  /\ aPantry = <<>>
  /\ Len(aOut[1].recipes) = 1
  /\ aOut[1].recipes[1].badges = <<"local">>

C3_WatchdogFallback ==
  [][WatchdogFires =>
       LET sent == response'[Len(response')]
       IN /\ Len(response') = Len(response) + 1
          /\ sent.status = 200
          /\ sent.obj.pantry = <<>>
          /\ Len(sent.obj.recipes) = 1
          /\ \E now \in Times : sent.obj.recipes[1] = emergencyRecipe(<<>>, now)
          /\ sent.obj.recipes[1].badges = <<"local">>
          /\ sent.obj.debug.source = "watchdog"]_vars

C3_Witness ==
  /\ Len(response) = 1
  /\ response[1].status = 200
  /\ response[1].obj.debug.source = "watchdog"
  /\ apc = "providers"
  /\ aPantry # <<>>
  /\ response[1].obj.pantry = <<>>

\* C4 as stated: a parsed body that supplies neither an image nor a
\* non-empty pantryOverride is answered with a 4xx status and an error
\* message, and no provider is called.
C4_NoInputRejected ==
  (Len(hBody) > 0 /\ ~HasInput(hBody[1]) /\ Len(response) > 0) =>
    /\ response[1].status \in 400..499
    /\ "error" \in DOMAIN response[1].obj
    /\ calls = [vision |-> 0, spoon |-> 0, llm |-> 0]

\* C5: a POST whose body parses and supplies an image or a non-empty
\* pantryOverride is answered with status 200 whatever the providers do;
\* a status other than 200 is sent only for a wrong method or for a body
\* that is too large, is not JSON or does not arrive in time.
C5_ProviderFailuresAre200 ==
  \A k \in 1..Len(response) :
    /\ (Len(hBody) > 0 /\ HasInput(hBody[1])) => response[k].status = 200
    /\ response[k].status # 200 =>
         /\ Len(hBody) = 0
         /\ \/ response[k].status = 405 /\ req.method # "POST"
            \/ response[k].status = 413 /\ req.bodyKind = "too-large"
            \/ response[k].status = 400 /\ req.bodyKind = "invalid-json"
            \/ response[k].status = 408 /\ req.method = "POST"

C5_Witness ==
  /\ Len(hBody) > 0
  /\ hBody[1].imageBase64
  /\ env.GCV_KEY /\ env.SPOON_KEY /\ env.OPENAI_API_KEY
  /\ aSource = "vision-failed"
  /\ FullPipelineReturned
  /\ spoonTask.val = <<>>
  /\ llmTask.val = <<>>
  /\ Len(response) = 1
  /\ response[1].status = 200

(* ---------------------- properties of the pantry functions ------------ *)
\* s without its k-th character
DeleteAt(s, k) == SubSeq(s, 1, k - 1) \o SubSeq(s, k + 1, Len(s))

\* exactly one insertion, deletion or substitution turns a into b
OneEditApart(a, b) ==
  \/ Len(a) = Len(b) /\ a # b /\ \E k \in 1..Len(a) : DeleteAt(a, k) = DeleteAt(b, k)
  \/ Len(a) = Len(b) + 1 /\ \E k \in 1..Len(a) : DeleteAt(a, k) = b
  \/ Len(b) = Len(a) + 1 /\ \E k \in 1..Len(b) : DeleteAt(b, k) = a

\* the edit distance of a and b, with every distance above 1 counted as 2
EditDistanceCapped(a, b) == IF a = b THEN 0 ELSE IF OneEditApart(a, b) THEN 1 ELSE 2

\* the first WHITELIST term at the least distance from t, when that is <= 1
FirstNearest(t) ==
  LET dist == [i \in 1..Len(WHITELIST) |-> EditDistanceCapped(t, WHITELIST[i])]
      least == IF \E i \in DOMAIN dist : dist[i] = 0 THEN 0
               ELSE IF \E i \in DOMAIN dist : dist[i] = 1 THEN 1 ELSE 2
  IN IF least <= 1
       THEN << WHITELIST[CHOOSE i \in DOMAIN dist :
                            dist[i] = least /\ \A k \in 1..(i - 1) : dist[k] # least] >>
       ELSE <<>>

\* the term cleanPantry works on for a raw token: lowercased, then MAP[t0] || t0
TermOf(tok) == MapOrSelf(toLowerCase(tok))

\* a token whose term is a string shorter than 5 that is no WHITELIST entry
ShortUnlisted(tok) ==
  /\ TermOf(tok).kind = "string"
  /\ TermOf(tok).len < 5
  /\ TermOf(tok).str \notin WhitelistSet

\* C6: cleanPantry returns, for every raw token list (property names of
\* objects included), a list without duplicates whose entries are all
\* WHITELIST members.
C6_Closure ==
  applied \in {"cleanPantry", "cleanPantryAgain"} =>
    /\ NoDuplicates(result)
    /\ Range(result) \subseteq WhitelistSet

C6_Witness ==
  /\ applied = "cleanPantry"
  /\ {"constructor", "__proto__", "brocoli"} \subseteq Range(input)
  /\ result = <<"broccoli">>

C8_ShortDropped ==
  applied = "cleanPantry" =>
    /\ \A k \in 1..Len(input) :
          ShortUnlisted(input[k]) => cleanPantry(<<input[k]>>) = <<>>
    /\ \A e \in Range(result) :
          \E k \in 1..Len(input) :
            ~ShortUnlisted(input[k]) /\ cleanPantry(<<input[k]>>) = <<e>>

C8_Witness ==
  /\ applied = "cleanPantry"
  /\ input = <<"bean">>
  /\ ShortUnlisted("bean")
  /\ OneEditApart("bean", "beans")
  /\ result = <<>>

\* C9: nearestWhitelistStrict returns the first WHITELIST term at the least
\* edit distance when that distance is at most 1, and null otherwise;
\* "brocoli" gives "broccoli".
C9_NearestFirstMin ==
  applied = "nearestWhitelistStrict" =>
    /\ result = FirstNearest(inTerm)
    /\ inTerm = "brocoli" => result = <<"broccoli">>

\* "sale" is one edit from both "kale" and "salt"; "kale" comes first
C9_Witness ==
  /\ applied = "nearestWhitelistStrict"
  /\ inTerm = "sale"
  /\ OneEditApart("sale", "kale") /\ OneEditApart("sale", "salt")
  /\ result = <<"kale">>

\* C10: on the image path a token bag with "coconut" and "milk" gives a
\* pantry with "coconut milk" and without "milk"; one with "kidney" and
\* "beans" gives "kidney beans" and no "beans".
C10_PhraseSupersedes ==
  applied = "visionPantry" =>
    /\ {"coconut", "milk"} \subseteq Range(input) =>
          "coconut milk" \in Range(result) /\ "milk" \notin Range(result)
    /\ {"kidney", "beans"} \subseteq Range(input) =>
          "kidney beans" \in Range(result) /\ "beans" \notin Range(result)

\* s with its ASCII letters in upper case
UpperTable ==
  [c \in {CharAt(LowerAlphabet, i) : i \in 1..Len(LowerAlphabet)} |->
     CharAt(UpperAlphabet, CHOOSE i \in 1..Len(LowerAlphabet) : CharAt(LowerAlphabet, i) = c)]

UpperChar(c) == IF c \in DOMAIN UpperTable THEN UpperTable[c] ELSE c

RECURSIVE toUpperCase(_)
toUpperCase(s) ==
  IF Len(s) = 0 THEN "" ELSE UpperChar(SubSeq(s, 1, 1)) \o toUpperCase(SubSeq(s, 2, Len(s)))

\* seq rearranged by the permutation p of its positions
Permuted(seq, p) == [i \in 1..Len(seq) |-> seq[p[i]]]

\* a token that is no vocabulary term, no synonym and not within one edit of
\* a vocabulary term
Unrecognised(tok) ==
  /\ TermOf(tok).kind = "string"
  /\ TermOf(tok).str \notin WhitelistSet
  /\ FirstNearest(TermOf(tok).str) = <<>>

\* C11: the set cleanPantry returns does not change when the tokens are put
\* in upper or lower case, repeated or reordered; unrecognised tokens add
\* nothing; ["Banana","banana","BROCCOLI","plastic container"] gives exactly
\* banana and broccoli.
C11_CaseDupOrderInvariant ==
  applied = "cleanPantry" =>
    /\ Range(cleanPantry([i \in 1..Len(input) |-> toUpperCase(input[i])])) = Range(result)
    /\ Range(cleanPantry(LowerAll(input))) = Range(result)
    /\ Range(cleanPantry(input \o input)) = Range(result)
    /\ \A p \in Permutations(1..Len(input)) :
          Range(cleanPantry(Permuted(input, p))) = Range(result)
    /\ \A k \in 1..Len(input) :
          Unrecognised(input[k]) =>
            Range(cleanPantry(SubSeq(input, 1, k - 1) \o SubSeq(input, k + 1, Len(input))))
              = Range(result)
    /\ Range(cleanPantry(<<"Banana", "banana", "BROCCOLI", "plastic container">>))
         = {"banana", "broccoli"}

C11_Witness ==
  /\ applied = "cleanPantry"
  /\ input = <<"plastic container", "BROCCOLI", "Banana">>
  /\ Unrecognised("plastic container")
  /\ Range(result) = {"banana", "broccoli"}

(* ------------------ properties of spoonacularRecipes ------------------ *)
\* the candidates of the provider's results array that spoonP returned
ReturnedCandidates ==
  {it \in Range(spoonTask.raw) :
     \E k \in 1..Len(spoonTask.val) : spoonTask.val[k].id = ToString(it.id)}

\* strict filtering kept no candidate of a non-empty results array
Degraded ==
  /\ Len(spoonTask.raw) > 0
  /\ \A i \in 1..Len(spoonTask.raw) : ~StrictKeep(spoonTask.raw[i], aPantry, hBody[1].prefs)

\* a dessert, drink or alcohol word in the title, or an excluded dish type
CategoryExcluded(it) ==
  \/ \E w \in DESSERT \cup DRINK \cup ALCOHOL : Includes(toLowerCase(it.title), w)
  \/ \E d \in Range(LowerAll(it.dishTypes)) : d \in ExcludedDishTypes

\* C12 as stated: no recipe returned by spoonacularRecipes has a dessert,
\* drink or alcohol word in its title or an excluded dish type, the
\* degraded case included.
C12_NoExcludedCategory ==
  spoonTask.st = "settled" =>
    \A it \in ReturnedCandidates : ~CategoryExcluded(it)

\* C13 as stated: no recipe returned by spoonacularRecipes comes from a
\* candidate whose ready time is above max(10, prefs.time + 10), in strict
\* and in degraded mode.
C13_WithinTimeCap ==
  spoonTask.st = "settled" =>
    \A it \in ReturnedCandidates : it.readyInMinutes <= TimeCap(hBody[1].prefs)

\* C14 as stated: a candidate with a fish or shellfish word in its title is
\* not returned by spoonacularRecipes when the pantry has none of shrimp,
\* prawn, salmon, tuna, fish.
C14_NoFishWithoutFish ==
  spoonTask.st = "settled" =>
    \A it \in ReturnedCandidates :
      (\E w \in FishTitleWords : Includes(toLowerCase(it.title), w)) =>
         \E q \in Range(aPantry) : q \in FishPantryWords

\* C15 as stated: with missed and time fixed, the rounded score of a larger
\* used count is strictly greater than that of a smaller one.
C15_StrictlyIncreasing ==
  applied = "score" => result > prior

\* both providers left runAnalyze without a candidate
NoCandidates ==
  /\ FullPipelineReturned
  /\ spoonTask.val = <<>>
  /\ llmTask.val = <<>>

\* C16: when neither provider yields a candidate, the result (and the
\* response that carries it) has exactly one recipe, with the "local" badge,
\* listing every pantry ingredient with have = true; the override
\* ["chickpeas","tomato","onion","garlic"] gives the pantry
\* {chickpeas, tomatoes, onion, garlic}.
C16_EmergencyBackfill ==
  NoCandidates =>
    /\ Len(aOut[1].recipes) = 1
    /\ "local" \in Range(aOut[1].recipes[1].badges)
    /\ aOut[1].pantry = aPantry
    /\ \A q \in Range(aPantry) :
          \E k \in 1..Len(aOut[1].recipes[1].ingredients) :
            aOut[1].recipes[1].ingredients[k] = [name |-> q, have |-> TRUE]
    /\ \A k \in 1..Len(response) :
          response[k].obj.debug.source # "watchdog" => response[k].obj = aOut[1]
    /\ hBody[1].pantryOverride = << <<"chickpeas", "tomato", "onion", "garlic">> >> =>
          /\ Range(aPantry) = {"chickpeas", "tomatoes", "onion", "garlic"}
          /\ Len(aPantry) = 4

C16_Witness ==
  /\ NoCandidates
  /\ ~env.SPOON_KEY
  /\ ~env.OPENAI_API_KEY
  /\ hBody[1].pantryOverride = << <<"chickpeas", "tomato", "onion", "garlic">> >>
  /\ Len(response) = 1
  /\ response[1].obj.pantry = <<"chickpeas", "tomatoes", "onion", "garlic">>
  /\ Len(response[1].obj.recipes) = 1
  /\ response[1].obj.recipes[1].title = "Chickpea Savoury Skillet"

\* the first n entries of seq, all of it when it is shorter
FirstN(seq, n) == SubSeq(seq, 1, IF Len(seq) < n THEN Len(seq) ELSE n)

\* the entries of recs whose id is neither among ids nor on an earlier entry
RECURSIVE NewById(_, _)
NewById(recs, ids) ==
  IF Len(recs) = 0 THEN <<>>
  ELSE IF Head(recs).id \in ids THEN NewById(Tail(recs), ids)
  ELSE <<Head(recs)>> \o NewById(Tail(recs), ids \cup {Head(recs).id})

\* C17: the merged list is the search provider's recipes in their order, at
\* most the first 3, followed by the generative recipes, in order, whose id
\* is not yet in the list, added only while the list is shorter than 3; no
\* generative recipe comes before a search recipe.
C17_MergeOrder ==
  (FullPipelineReturned /\ ~NoCandidates) =>
    LET web == spoonTask.val
        gen == llmTask.val
        merged == aOut[1].recipes
    IN /\ merged = FirstN(web \o NewById(gen, {web[k].id : k \in 1..Len(web)}), 3)
       /\ FirstN(merged, Len(FirstN(web, 3))) = FirstN(web, 3)
       /\ \A i, j \in 1..Len(merged) :
             (i < j /\ merged[i].badges = <<"llm">>) => merged[j].badges # <<"web">>

C17_Witness ==
  /\ FullPipelineReturned
  /\ Len(spoonTask.val) = 1
  /\ Len(llmTask.val) = 1
  /\ Len(aOut[1].recipes) = 2
  /\ aOut[1].recipes[1] = spoonTask.val[1]
  /\ aOut[1].recipes[1].badges = <<"web">>
  /\ aOut[1].recipes[2] = llmTask.val[1]
  /\ aOut[1].recipes[2].badges = <<"llm">>

\* the parsed body asks for the pantry only and supplies an input
PantryOnlyRequested ==
  /\ Len(hBody) > 0
  /\ HasInput(hBody[1])
  /\ hBody[1].mode = "pantryOnly" \/ hBody[1].prefs.pantryOnly

C19_AtMostOneResponse ==
  [][/\ Len(response') <= 1
     /\ sentCount' = Len(response')
     /\ Len(response) = 1 => response' = response]_vars

C19_Witness ==
  /\ Len(response) = 1
  /\ response[1].status = 200
  /\ response[1].obj.debug.source = "watchdog"
  /\ FullPipelineReturned
  /\ env.OPENAI_API_KEY
  /\ Len(llmTask.val) = 1
  /\ aOut[1] # response[1].obj
  /\ sentCount = 1

C22_EventuallyAnswered == <>(Len(response) = 1)

\* answered while the labeling provider had not answered
C22_Witness ==
  /\ Len(response) = 1
  /\ response[1].status = 200
  /\ response[1].obj.debug.source = "watchdog"
  /\ apc = "vision"
  /\ calls.vision = 1

\* C23 as stated: in one request no recipe of the generative provider has
\* the id of a recipe of the search provider.
C23_IdsSourceQualified ==
  FullPipelineReturned =>
    \A a \in 1..Len(spoonTask.val) : \A b \in 1..Len(llmTask.val) :
      spoonTask.val[a].id # llmTask.val[b].id

DistinctIds(recs) ==
  \A a, b \in 1..Len(recs) : a # b => recs[a].id # recs[b].id

\* C24 as stated: the recipes of every response have pairwise distinct ids.
C24_DistinctIds ==
  \A k \in 1..Len(response) :
    (response[k].status = 200 /\ "recipes" \in DOMAIN response[k].obj) =>
      DistinctIds(response[k].obj.recipes)

\* some raw token matches /seasoning|stock|bouillon|gravy/
HasSeasoningWord(tokens) ==
  \E i \in 1..Len(tokens) : \E w \in SeasoningWords : Includes(toLowerCase(tokens[i]), w)

\* C25 as stated: on the image path, when a raw token matches a seasoning
\* word, the pantry holds no bare meat word, whatever the other tokens are.
C25_NoMeatUnderSeasoning ==
  (applied = "visionPantry" /\ HasSeasoningWord(input)) =>
    Range(result) \cap meatWords = {}

\* the rules of the strict filter other than the specific-ingredient rule
OtherRulesKeep(it, pantryList, prefs) ==
  /\ ~CategoryExcluded(it)
  /\ ~ (it.usedIngredientCount < 2)
  /\ ~ (it.readyInMinutes > TimeCap(prefs))
  /\ ((\E w \in FishTitleWords : Includes(toLowerCase(it.title), w)) =>
        \E q \in Range(pantryList) : q \in FishPantryWords)

\* a non-generic pantry ingredient occurs in the title or an ingredient name
SpecificInTitleOrIngredients(it, pantryList) ==
  \E sp \in {q \in Range(pantryList) : q \notin GENERIC} :
    \/ Includes(toLowerCase(it.title), sp)
    \/ \E k \in 1..Len(it.extendedIngredients) :
         Includes(toLowerCase(it.extendedIngredients[k]), sp)

\* C26 as stated: in strict mode, a candidate the other rules keep is left
\* out exactly when the pantry has two or more non-generic ingredients and
\* none of them occurs in its title or in any of its ingredient names.
C26_SpecificRule ==
  (spoonTask.st = "settled" /\ ~Degraded) =>
    \A it \in Range(spoonTask.raw) :
      OtherRulesKeep(it, aPantry, hBody[1].prefs) =>
        (it \notin ReturnedCandidates <=>
           /\ Cardinality({q \in Range(aPantry) : q \notin GENERIC}) >= 2
           /\ ~SpecificInTitleOrIngredients(it, aPantry))

\* the watchdog answered with emergencyRecipe([]) and runAnalyze, on an empty
\* pantry and without candidates, called emergencyRecipe([]) as well
TwoEmergencyCalls ==
  /\ NoCandidates
  /\ aPantry = <<>>
  /\ Len(response) = 1
  /\ response[1].status = 200
  /\ response[1].obj.debug.source = "watchdog"

\* C27 as stated: two calls of emergencyRecipe with the same pantry return
\* the same recipe in every field, id included.
C27_EmergencyDeterministic ==
  TwoEmergencyCalls => aOut[1].recipes = response[1].obj.recipes

\* the pantry ingredients each flavor-base entry stands for
FlavorBase ==
  ("onion (or onion powder)" :> {"onion"})
  @@ ("garlic (or garlic powder)" :> {"garlic"})
  @@ ("ginger (or ground ginger)" :> {"ginger"})
  @@ ("mixed dried herbs" :> {"mixed dried herbs"})
  @@ ("stock cube" :> {"stock cube"})
  @@ ("lemon or vinegar" :> {"lemon", "vinegar"})
  @@ ("salt & black pepper" :> {"salt", "black pepper"})

HaveIsMembership(recs, pantryList) ==
  \A a \in 1..Len(recs) : \A b \in 1..Len(recs[a].ingredients) :
    recs[a].ingredients[b].have <=> recs[a].ingredients[b].name \in Range(pantryList)

\* C29 as stated: in every recipe the search provider or the generative
\* provider returns, an ingredient's have flag is TRUE exactly when its
\* lowercased name is in the request's pantry.
C29_HaveIffInPantry ==
  /\ spoonTask.st = "settled" => HaveIsMembership(spoonTask.val, aPantry)
  /\ llmTask.st = "settled" => HaveIsMembership(llmTask.val, aPantry)

\* x hundredths is a two-decimal value nearest to
\* 0.7 * used / (used + missed + 1) + 0.3 * (1 - min(time, 60) / 60),
\* which is (140 * used + (60 - min(time, 60)) * d) / (2 * d) hundredths
\* for d = used + missed + 1
RoundedScore(x, used, missed, time) ==
  LET d == used + missed + 1
      twice == 140 * used + (60 - (IF time < 60 THEN time ELSE 60)) * d
  IN /\ 2 * d * x - twice <= d
     /\ twice - 2 * d * x <= d

\* C30: the score put on a search-sourced recipe is the formula's value
\* rounded to two decimals (a nearest hundredth), and lies in [0, 1].
C30_ScoreRoundedInRange ==
  applied = "score" =>
    /\ RoundedScore(prior, input[1], input[3], input[4])
    /\ RoundedScore(result, input[2], input[3], input[4])
    /\ prior \in 0..100
    /\ result \in 0..100

\* a ready time above 60, the lowest score, and an exact half
C30_Witness ==
  /\ applied = "score"
  /\ input = <<0, 3, 0, 90>>
  /\ prior = 0
  /\ result = 52
====
